---- MODULE Spec2Model ----
(***************************************************************************)
(* Model of mischief_managed: a file-backed note store (data_store.py),    *)
(* its access control (auth.py), the blob repository (encryption.py) and   *)
(* the request handlers (main.py).                                         *)
(*                                                                         *)
(* Two levels are modelled over the same documents:                        *)
(*   - SpecStore, SpecStoreFail: tasks call DataStore operations; every    *)
(*     operation is the sequence lock.acquire / _read_json / open("w") /   *)
(*     json.dump+release, one step each, and a task may be descheduled     *)
(*     after any step, so that the lock alone is what serialises them.     *)
(*   - Spec, SpecAdmin, SpecShare: tasks of one event loop run the         *)
(*     handlers of main.py; every `await` of a handler is one step (a      *)
(*     DataStore operation taken as a whole, or a blob operation), and     *)
(*     the loop changes task only where the running handler suspends       *)
(*     (asyncio.sleep in write_note) or ends.                              *)
(***************************************************************************)
EXTENDS Naturals, Sequences, FiniteSets, TLC

\* ------------------------------------------------------------------ bounds
NumTasks == 2
MaxCalls == 4
MaxStoreCalls == 3
MaxNotes == 2
MaxRequests == 2

\* --------------------------------------------------------------- constants
Admin == "Dumbledore"

DEFAULT_WIZARDS ==
    [n \in {"Harry", "Hermione", "Ron", "Hagrid", "Dumbledore"} |->
        CASE n = "Harry" -> "harry_secret_key_123"
          [] n = "Hermione" -> "hermione_secret_key_456"
          [] n = "Ron" -> "ron_secret_key_789"
          [] n = "Hagrid" -> "hagrid_secret_key_012"
          [] n = "Dumbledore" -> "dumbledore_admin_key_999"]

Tasks == 1..NumTasks
NoteIds == 1..MaxNotes
RequestIds == 1..MaxRequests

\* Inputs of the DataStore operations (SpecStore).
StoreNames == {"Harry", "Ron"}
NewNames == {"Neville", "Harry"}
NewKeys == {"neville_key"}

VARIABLES
    wizards,     \* wizards_info.json: name -> api key
    notes_meta,  \* notes_meta.json: note id -> [owner]
    share_data,  \* share_data.json: [shares: note id -> list, requests: list]
    partial,     \* the document files left empty or partly written
    files,       \* NOTES_DIR: the note ids whose <id>.txt exists
    lock,        \* DataStore.lock: 0 when free, else the task holding it
    task,        \* each task's position and locals
    calls,       \* calls started so far
    added,       \* (note, wizard) pairs of the add_share calls completed
                 \* since the last clear_all_shares
    uuids,       \* note ids handed out by uuid.uuid4() so far
    hist,        \* per request id: the share_all_notes runs made for it
                 \* (grants) and the approve calls that answered 200 (oks)
    born,        \* per note id: the requests already approved when its
                 \* metadata entry was added
    last,        \* the answer the step into this state has given, if any
    running      \* the task the event loop is running, 0 between tasks

vars == <<wizards, notes_meta, share_data, partial, files, lock, task, calls,
          added, uuids, hist, born, last, running>>

docs == <<wizards, notes_meta, share_data, partial, files>>

ghosts == <<added, hist, born>>

\* ------------------------------------------------------------ dict helpers
Put(f, k, v) == [x \in (DOMAIN f) \cup {k} |-> IF x = k THEN v ELSE f[x]]

Del(f, k) == [x \in (DOMAIN f) \ {k} |-> f[x]]

Contains(s, x) == \E i \in 1..Len(s) : s[i] = x

EmptyDict == <<>>

EmptyShareData == [shares |-> EmptyDict, requests |-> <<>>]

\* ------------------------------------------- DataStore: document updates
\* The in-memory modification each operation makes between its _read_json
\* and its _write_json.

add_wizard(wz, name, api_key) == Put(wz, name, api_key)

add_note_meta(notes, note_id, meta) == Put(notes, note_id, meta)

delete_note_meta(notes, note_id) == Del(notes, note_id)

\* A share that replaces the note's list instead of appending to it.
add_share_replaces(data, note_id, wizard_name) ==
    [data EXCEPT !.shares = Put(data.shares, note_id, <<wizard_name>>)]

add_share(data, note_id, wizard_name) ==
    LET s1 == IF note_id \notin DOMAIN data.shares
              THEN Put(data.shares, note_id, <<>>)
              ELSE data.shares
        s2 == IF ~Contains(s1[note_id], wizard_name)
              THEN [s1 EXCEPT ![note_id] = Append(@, wizard_name)]
              ELSE s1
    IN  [data EXCEPT !.shares = s2]

add_request(data, request) == [data EXCEPT !.requests = Append(@, request)]

\* The first request with the id gets the status; none: nothing changes.
update_request_status(data, request_id, status) ==
    LET hits == {i \in 1..Len(data.requests) :
                    data.requests[i].request_id = request_id}
    IN  IF hits = {} THEN data
        ELSE LET first == CHOOSE i \in hits : \A j \in hits : i <= j
             IN  [data EXCEPT !.requests[first].status = status]

\* A clear that empties the whole document, requests included.
clear_all_shares_and_requests(data) == EmptyShareData

clear_all_shares(data) == [data EXCEPT !.shares = EmptyDict]

RECURSIVE ShareEach(_, _, _)
ShareEach(ids, data, recipient) ==
    IF ids = {} THEN data
    ELSE LET n == CHOOSE x \in ids : TRUE
         IN  ShareEach(ids \ {n}, add_share(data, n, recipient), recipient)

\* A bulk grant that appends to the share lists that exist and makes none.
share_all_notes_listed_only(notes, data, owner, recipient) ==
    ShareEach({n \in DOMAIN notes :
                  notes[n].owner = owner /\ n \in DOMAIN data.shares},
              data, recipient)

share_all_notes(notes, data, owner, recipient) ==
    ShareEach({n \in DOMAIN notes : notes[n].owner = owner}, data, recipient)

\* --------------------------------------------------- DataStore: the tasks
\* A call of a DataStore operation, with its arguments.
StoreOps ==
    {[op |-> o] : o \in {"get_wizards", "get_notes_meta", "get_share_data",
                         "clear_all_shares"}}
    \cup {[op |-> "add_wizard", name |-> n, api_key |-> k] :
            n \in NewNames, k \in NewKeys}
    \cup {[op |-> "add_note_meta", note_id |-> n, meta |-> [owner |-> w]] :
            n \in NoteIds, w \in StoreNames}
    \cup {[op |-> "delete_note_meta", note_id |-> n] : n \in NoteIds}
    \cup {[op |-> "add_share", note_id |-> n, wizard_name |-> w] :
            n \in NoteIds, w \in StoreNames}
    \cup {[op |-> "add_request",
           request |-> [request_id |-> r, from_wizard |-> "Ron",
                        to_wizard |-> "Harry", status |-> "pending"]] :
            r \in RequestIds}
    \cup {[op |-> "update_request_status", request_id |-> r,
           status |-> "approved"] : r \in RequestIds}
    \cup {[op |-> "share_all_notes", owner |-> "Harry", recipient |-> "Ron"]}

\* The document file an operation reads first and rewrites.
FileOf(c) ==
    CASE c.op \in {"get_wizards", "add_wizard"} -> "wizards"
      [] c.op \in {"get_notes_meta", "add_note_meta", "delete_note_meta"}
            -> "notes_meta"
      [] OTHER -> "share_data"

\* Every file the operation reads.
FilesRead(c) ==
    IF c.op = "share_all_notes" THEN {"notes_meta", "share_data"}
    ELSE {FileOf(c)}

Content(file) ==
    CASE file = "wizards" -> wizards
      [] file = "notes_meta" -> notes_meta
      [] OTHER -> share_data

\* An add_wizard that does not look whether the name is taken.
WritesNothing_add_unchecked(c) ==
    \/ c.op \in {"get_wizards", "get_notes_meta", "get_share_data"}
    \/ c.op = "delete_note_meta" /\ c.note_id \notin DOMAIN notes_meta

\* The operations that return or raise after the read, writing nothing.
WritesNothing(c) ==
    \/ c.op \in {"get_wizards", "get_notes_meta", "get_share_data"}
    \/ c.op = "add_wizard" /\ c.name \in DOMAIN wizards
    \/ c.op = "delete_note_meta" /\ c.note_id \notin DOMAIN notes_meta

\* A delete_note_meta that deletes without looking: KeyError on a missing id.
AnswerOf_del_unchecked(c) ==
    IF c.op = "add_wizard" THEN "ValueError"
    ELSE IF c.op = "delete_note_meta" THEN "KeyError"
    ELSE ""

\* What the operation answers when it writes nothing.
AnswerOf(c) ==
    IF c.op = "add_wizard" THEN "ValueError" ELSE ""

\* The document the operation builds in memory from what it has just read.
Modified(c) ==
    CASE c.op = "add_wizard" -> add_wizard(wizards, c.name, c.api_key)
      [] c.op = "add_note_meta" -> add_note_meta(notes_meta, c.note_id, c.meta)
      [] c.op = "delete_note_meta" -> delete_note_meta(notes_meta, c.note_id)
      [] c.op = "add_share" -> add_share(share_data, c.note_id, c.wizard_name)
      [] c.op = "add_request" -> add_request(share_data, c.request)
      [] c.op = "update_request_status"
            -> update_request_status(share_data, c.request_id, c.status)
      [] c.op = "clear_all_shares" -> clear_all_shares(share_data)
      [] c.op = "share_all_notes"
            -> share_all_notes(notes_meta, share_data, c.owner, c.recipient)

\* A task that runs nothing.
Idle == [pc |-> "idle"]

\* No answer: the step was not the end of a call.
NoReply == [h |-> ""]

\* The answer of a DataStore operation: what it raised, "" when it returned.
Returned(c, raised) == [h |-> c.op, raised |-> raised]

IsIdle(t) == task[t].pc = "idle"

\* A call is served by a task of its own; tasks not serving a call are alike,
\* and the one that takes the next call is the first of them.
Free(t) == IsIdle(t) /\ \A u \in Tasks : u < t => ~IsIdle(u)

Init ==
    /\ wizards = DEFAULT_WIZARDS
    /\ notes_meta = EmptyDict
    /\ share_data = EmptyShareData
    /\ partial = {}
    /\ files = {}
    /\ lock = 0
    /\ task = [t \in Tasks |-> Idle]
    /\ calls = 0
    /\ added = {}
    /\ uuids = 0
    /\ hist = [grants |-> [r \in RequestIds |-> 0], oks |-> [r \in RequestIds |-> 0]]
    /\ born = EmptyDict
    /\ last = NoReply
    /\ running = 0

\* A task calls one of these DataStore operations and reaches its
\* `async with self.lock`.
store_call_in(t, ops) ==
    /\ Free(t)
    /\ calls < MaxStoreCalls
    /\ \E c \in ops :
          task' = [task EXCEPT ![t] = [pc |-> "acquire", call |-> c]]
    /\ calls' = calls + 1
    /\ last' = NoReply
    /\ UNCHANGED <<running, docs, lock, uuids, ghosts>>

store_call(t) == store_call_in(t, StoreOps)

\* A lock whose acquire never waits.
LockNeverWaits == TRUE

\* asyncio.Lock: acquire succeeds only while nobody holds the lock.
LockFree == lock = 0

lock_acquire(t) ==
    /\ task[t].pc = "acquire"
    /\ LockFree
    /\ lock' = t
    /\ task' = [task EXCEPT ![t].pc = "read"]
    /\ last' = NoReply
    /\ UNCHANGED <<running, docs, calls, uuids, ghosts>>

\* A lock that stays with the task when an exception leaves the block.
lock_after_exit_kept_on_raise(t, raised) == IF raised = "" THEN 0 ELSE t

\* `async with self.lock`: __aexit__ releases the lock however the block is
\* left, by return or by an exception.
lock_after_exit(t, raised) == 0

\* _read_json and the modification in memory; json.load raises on a file
\* that does not hold a whole document. Leaving the `async with` block
\* (return or raise) releases the lock.
read_json(t) ==
    /\ task[t].pc = "read"
    /\ LET c == task[t].call IN
         IF FilesRead(c) \cap partial # {}
         THEN /\ task' = [task EXCEPT ![t] = Idle]
              /\ last' = Returned(c, "JSONDecodeError")
              /\ lock' = lock_after_exit(t, "JSONDecodeError")
         ELSE IF WritesNothing(c)
         THEN /\ task' = [task EXCEPT ![t] = Idle]
              /\ last' = Returned(c, AnswerOf(c))
              /\ lock' = lock_after_exit(t, AnswerOf(c))
         ELSE /\ task' = [task EXCEPT ![t] =
                            [pc |-> "write", call |-> c, buf |-> Modified(c)]]
              /\ last' = NoReply
              /\ lock' = lock
    /\ UNCHANGED <<running, docs, calls, uuids, ghosts>>

\* _write_json, first half: open(filepath, "w") truncates the file.
open_w(t) ==
    /\ task[t].pc = "write"
    /\ partial' = partial \cup {FileOf(task[t].call)}
    /\ task' = [task EXCEPT ![t].pc = "dump"]
    /\ last' = NoReply
    /\ UNCHANGED <<running, wizards, notes_meta, share_data, files, lock,
                   calls, uuids, ghosts>>

\* _write_json, second half: json.dump writes the whole document; the
\* `async with` block ends and the lock is released.
json_dump(t) ==
    /\ task[t].pc = "dump"
    /\ LET c == task[t].call
           file == FileOf(c)
       IN  /\ wizards' = IF file = "wizards" THEN task[t].buf ELSE wizards
           /\ notes_meta' = IF file = "notes_meta" THEN task[t].buf ELSE notes_meta
           /\ share_data' = IF file = "share_data" THEN task[t].buf ELSE share_data
           /\ partial' = partial \ {file}
           /\ added' = CASE c.op = "add_share"
                              -> added \cup {<<c.note_id, c.wizard_name>>}
                         [] c.op = "clear_all_shares" -> {}
                         [] OTHER -> added
    /\ lock' = lock_after_exit(t, "")
    /\ task' = [task EXCEPT ![t] = Idle]
    /\ last' = Returned(task[t].call, "")
    /\ UNCHANGED <<running, files, calls, uuids, hist, born>>

\* _write_json raising OSError: at open (permission denied: the file is
\* untouched) or during json.dump (disk full: the file stays as the
\* failed write left it). The exception leaves the `async with` block.
write_json_fails(t) ==
    /\ \/ task[t].pc = "write"
       \/ task[t].pc = "dump"
    /\ lock' = lock_after_exit(t, "OSError")
    /\ task' = [task EXCEPT ![t] = Idle]
    /\ last' = Returned(task[t].call, "OSError")
    /\ UNCHANGED <<running, docs, calls, uuids, ghosts>>

StoreNext ==
    \E t \in Tasks :
        \/ store_call(t)
        \/ lock_acquire(t)
        \/ read_json(t)
        \/ open_w(t)
        \/ json_dump(t)

SpecStore == Init /\ [][StoreNext]_vars

StoreFailNext ==
    \E t \in Tasks :
        \/ store_call(t)
        \/ lock_acquire(t)
        \/ read_json(t)
        \/ open_w(t)
        \/ json_dump(t)
        \/ write_json_fails(t)

SpecStoreFail == Init /\ [][StoreFailNext]_vars

\* The operations that contend for the lock: a read, a write that raises
\* when the name is taken, a write of the notes and the bulk grant.
LockOps ==
    {[op |-> "get_wizards"]}
    \cup {[op |-> "add_wizard", name |-> n, api_key |-> k] :
            n \in NewNames, k \in NewKeys}
    \cup {[op |-> "add_note_meta", note_id |-> 1, meta |-> [owner |-> "Harry"]]}
    \cup {[op |-> "share_all_notes", owner |-> "Harry", recipient |-> "Ron"]}

LockNext ==
    \E t \in Tasks :
        \/ store_call_in(t, LockOps)
        \/ lock_acquire(t)
        \/ read_json(t)
        \/ open_w(t)
        \/ json_dump(t)
        \/ write_json_fails(t)

\* The event loop runs every task that can run, and asyncio.Lock wakes its
\* waiters in the order they came, so a waiter that finds the lock free
\* again and again gets it. A failing write is possible, never obliged.
LockFairness ==
    \A t \in Tasks :
        /\ SF_vars(lock_acquire(t))
        /\ WF_vars(read_json(t))
        /\ WF_vars(open_w(t))
        /\ WF_vars(json_dump(t))

SpecLock == Init /\ [][LockNext]_vars /\ LockFairness

\* encryption.delete_note_file: unlink when the file exists.
delete_note_file(fs, note_id) == fs \ {note_id}

\* The DataStore operations that add and remove notes and requests.
RepoOps ==
    {[op |-> "add_note_meta", note_id |-> n, meta |-> [owner |-> "Harry"]] :
        n \in NoteIds}
    \cup {[op |-> "delete_note_meta", note_id |-> n] : n \in NoteIds}
    \cup {[op |-> "add_request",
           request |-> [request_id |-> r, from_wizard |-> "Ron",
                        to_wizard |-> "Harry", status |-> "pending"]] :
            r \in RequestIds}
    \cup {[op |-> "update_request_status", request_id |-> r,
           status |-> "approved"] : r \in RequestIds}

\* The EncryptionService operations on the blob files.
BlobOps ==
    {[op |-> o, note_id |-> n] :
        o \in {"write_note", "delete_note_file"}, n \in NoteIds}

\* A task calls write_note (and sleeps) or delete_note_file.
blob_call(t) ==
    /\ Free(t)
    /\ calls < MaxStoreCalls
    /\ \E c \in BlobOps :
          task' = [task EXCEPT ![t] =
                     [pc |-> IF c.op = "write_note" THEN "sleep" ELSE "unlink",
                      call |-> c]]
    /\ calls' = calls + 1
    /\ last' = NoReply
    /\ UNCHANGED <<running, docs, lock, uuids, ghosts>>

\* write_note after its sleep writes <note_id>.txt; delete_note_file
\* unlinks it when it exists.
blob_step(t) ==
    /\ task[t].pc \in {"sleep", "unlink"}
    /\ files' = IF task[t].pc = "sleep"
                THEN files \cup {task[t].call.note_id}
                ELSE delete_note_file(files, task[t].call.note_id)
    /\ task' = [task EXCEPT ![t] = Idle]
    /\ last' = Returned(task[t].call, "")
    /\ UNCHANGED <<running, wizards, notes_meta, share_data, partial, lock,
                   calls, uuids, ghosts>>

\* The two repositories, called directly.
RepoNext ==
    \E t \in Tasks :
        \/ store_call_in(t, RepoOps)
        \/ lock_acquire(t)
        \/ read_json(t)
        \/ open_w(t)
        \/ json_dump(t)
        \/ blob_call(t)
        \/ blob_step(t)

SpecRepo == Init /\ [][RepoNext]_vars

\* ------------------------------------------------------------------- auth
\* The order json keeps the principals in: the defaults, then the added.
WizardOrder == <<"Harry", "Hermione", "Ron", "Hagrid", "Dumbledore", "Neville">>

NoWizard == ""

\* get_current_wizard: the first principal whose key is the one presented.
get_current_wizard(wz, x_api_key) ==
    LET hits == {i \in 1..Len(WizardOrder) :
                    /\ WizardOrder[i] \in DOMAIN wz
                    /\ wz[WizardOrder[i]] = x_api_key}
    IN  IF hits = {} THEN NoWizard
        ELSE WizardOrder[CHOOSE i \in hits : \A j \in hits : i <= j]

\* An administrator check that any principal's key passes.
get_admin_any_principal(wz, x_api_key) ==
    IF get_current_wizard(wz, x_api_key) # NoWizard THEN Admin ELSE NoWizard

\* get_admin: wizards.get("Dumbledore") == x_api_key.
get_admin(wz, x_api_key) ==
    IF Admin \in DOMAIN wz /\ wz[Admin] = x_api_key THEN Admin ELSE NoWizard

\* note_id in share_data["shares"] and wizard in share_data["shares"][note_id]
HasShare(data, note_id, wizard) ==
    /\ note_id \in DOMAIN data.shares
    /\ Contains(data.shares[note_id], wizard)

\* A check that goes to the shares without asking whether the note exists.
access_by_meta_unchecked(notes, note_id, wizard) ==
    IF note_id \in DOMAIN notes /\ notes[note_id].owner = wizard THEN "yes"
    ELSE "shares"

\* check_note_access up to its second await: "no" and "yes" are its answers
\* from the metadata alone, "shares" sends it on to read the share data.
access_by_meta(notes, note_id, wizard) ==
    IF note_id \notin DOMAIN notes THEN "no"
    ELSE IF notes[note_id].owner = wizard THEN "yes"
    ELSE "shares"

\* check_note_access on one snapshot of the two documents.
check_note_access(notes, data, note_id, wizard) ==
    LET m == access_by_meta(notes, note_id, wizard) IN
    IF m = "shares" THEN HasShare(data, note_id, wizard) ELSE m = "yes"

\* --------------------------------------------------------------- handlers
\* A handler is a task of the event loop; each step is one awaited call
\* together with the synchronous code that follows it, up to the next await.
\* The loop runs one task at a time and takes another one only when the
\* running task suspends or ends.

\* A scheduler in which every await gives the loop to another task.
SuspendsAtEveryAwait(pc) == TRUE

\* The awaits at which a handler suspends: asyncio.sleep in write_note. The
\* DataStore operations hold the lock over synchronous code only, so a
\* handler never finds the lock taken and its `async with` never waits.
Suspends(pc) == pc = "write_note"

\* The answer of a handler: the call (handler, key) and the HTTP status.
Reply(h, key, resp) == [h |-> h, key |-> key, resp |-> resp]

\* The handler answers and its task is free again.
Answer(t, resp) ==
    /\ task' = [task EXCEPT ![t] = Idle]
    /\ last' = Reply(task[t].h, task[t].key, resp)
    /\ running' = 0

\* The handler goes on to its next await, with these locals.
Continue(t, locals) ==
    /\ task' = [task EXCEPT ![t] = locals]
    /\ last' = NoReply
    /\ running' = IF Suspends(locals.pc) THEN 0 ELSE t

Goto(t, pc) == Continue(t, [task[t] EXCEPT !.pc = pc])

\* The handler h of task t is at the await pc and it is its turn: it is the
\* running task, or it is suspended and the loop is free to resume it.
At(t, h, pc) == task[t].pc = pc /\ task[t].h = h /\ running \in {0, t}

InFlight(h) == {t \in Tasks : task[t].pc # "idle" /\ task[t].h = h}

\* A request arrives and its Depends(...) is resolved to `who`: refused with
\* `deny` when it is nobody, else the handler starts with its locals.
Begin(t, h, key, who, deny, locals) ==
    /\ Free(t)
    /\ running = 0
    /\ calls < MaxCalls
    /\ calls' = calls + 1
    /\ IF who = NoWizard
       THEN /\ task' = task
            /\ last' = Reply(h, key, deny)
            /\ running' = 0
       ELSE Continue(t, locals)

\* POST /notes: Depends(get_current_wizard), then uuid4() and the metadata.
create_note(t, key) ==
    LET w == get_current_wizard(wizards, key) IN
    /\ w # NoWizard => uuids < MaxNotes
    /\ Begin(t, "create_note", key, w, 401,
             [pc |-> "add_note_meta", h |-> "create_note", key |-> key,
              wizard |-> w, note_id |-> uuids + 1])
    /\ uuids' = IF w = NoWizard THEN uuids ELSE uuids + 1
    /\ UNCHANGED <<docs, lock, ghosts>>

\* await data_store.add_note_meta; write_note encrypts and sleeps.
create_note_meta(t) ==
    /\ At(t, "create_note", "add_note_meta")
    /\ notes_meta' = add_note_meta(notes_meta, task[t].note_id,
                                   [owner |-> task[t].wizard])
    /\ born' = Put(born, task[t].note_id,
                   {r \in 1..Len(share_data.requests) :
                        share_data.requests[r].status = "approved"})
    /\ Goto(t, "write_note")
    /\ UNCHANGED <<wizards, share_data, partial, files, lock, calls, uuids,
                   added, hist>>

\* write_note after asyncio.sleep: the blob file is written.
create_note_write(t) ==
    /\ At(t, "create_note", "write_note")
    /\ files' = files \cup {task[t].note_id}
    /\ Answer(t, 200)
    /\ UNCHANGED <<wizards, notes_meta, share_data, partial, lock, calls,
                   uuids, ghosts>>

\* GET /notes/{note_id}: Depends(get_current_wizard).
read_note(t, key, note_id) ==
    LET w == get_current_wizard(wizards, key) IN
    /\ Begin(t, "read_note", key, w, 401,
             [pc |-> "check_note_access", h |-> "read_note", key |-> key,
              wizard |-> w, note_id |-> note_id])
    /\ UNCHANGED <<docs, lock, uuids, ghosts>>

\* check_note_access: await get_notes_meta, answer or go on to the shares.
read_note_access(t) ==
    /\ At(t, "read_note", "check_note_access")
    /\ LET m == access_by_meta(notes_meta, task[t].note_id, task[t].wizard) IN
         IF m = "no" THEN Answer(t, 403)
         ELSE IF m = "yes" THEN Goto(t, "get_notes_meta")
         ELSE Goto(t, "get_share_data")
    /\ UNCHANGED <<docs, lock, calls, uuids, ghosts>>

\* check_note_access: await get_share_data.
read_note_shares(t) ==
    /\ At(t, "read_note", "get_share_data")
    /\ IF HasShare(share_data, task[t].note_id, task[t].wizard)
       THEN Goto(t, "get_notes_meta")
       ELSE Answer(t, 403)
    /\ UNCHANGED <<docs, lock, calls, uuids, ghosts>>

\* await get_notes_meta, then encryption_service.read_note and decrypt.
read_note_fetch(t) ==
    /\ At(t, "read_note", "get_notes_meta")
    /\ IF task[t].note_id \notin DOMAIN notes_meta THEN Answer(t, 404)
       ELSE IF task[t].note_id \notin files THEN Answer(t, 404)
       ELSE Answer(t, 200)
    /\ UNCHANGED <<docs, lock, calls, uuids, ghosts>>

\* GET /notes/{note_id}/download: the same checks as read_note, in the same
\* order, before the page is built.
download_note(t, key, note_id) ==
    LET w == get_current_wizard(wizards, key) IN
    /\ Begin(t, "download_note", key, w, 401,
             [pc |-> "check_note_access", h |-> "download_note", key |-> key,
              wizard |-> w, note_id |-> note_id])
    /\ UNCHANGED <<docs, lock, uuids, ghosts>>

\* check_note_access: await get_notes_meta, answer or go on to the shares.
download_note_access(t) ==
    /\ At(t, "download_note", "check_note_access")
    /\ LET m == access_by_meta(notes_meta, task[t].note_id, task[t].wizard) IN
         IF m = "no" THEN Answer(t, 403)
         ELSE IF m = "yes" THEN Goto(t, "get_notes_meta")
         ELSE Goto(t, "get_share_data")
    /\ UNCHANGED <<docs, lock, calls, uuids, ghosts>>

\* check_note_access: await get_share_data.
download_note_shares(t) ==
    /\ At(t, "download_note", "get_share_data")
    /\ IF HasShare(share_data, task[t].note_id, task[t].wizard)
       THEN Goto(t, "get_notes_meta")
       ELSE Answer(t, 403)
    /\ UNCHANGED <<docs, lock, calls, uuids, ghosts>>

\* await get_notes_meta, then encryption_service.read_note and decrypt.
download_note_fetch(t) ==
    /\ At(t, "download_note", "get_notes_meta")
    /\ IF task[t].note_id \notin DOMAIN notes_meta THEN Answer(t, 404)
       ELSE IF task[t].note_id \notin files THEN Answer(t, 404)
       ELSE Answer(t, 200)
    /\ UNCHANGED <<docs, lock, calls, uuids, ghosts>>

\* A listing of the caller's own notes only.
view_notes_result_owned_only(notes, data, wizard) ==
    {[note_id |-> n, owner |-> notes[n].owner,
      shared_with |-> IF n \in DOMAIN data.shares THEN data.shares[n]
                      ELSE <<>>] :
        n \in {m \in DOMAIN notes : notes[m].owner = wizard}}

\* The loop of view_notes over notes.items(): a NoteResponse for each note
\* the caller owns or is in the share list of, with
\* shares.get(note_id, []) as shared_with.  The listing is kept as a set;
\* title and created_at are not modelled.
view_notes_result(notes, data, wizard) ==
    {[note_id |-> n, owner |-> notes[n].owner,
      shared_with |-> IF n \in DOMAIN data.shares THEN data.shares[n]
                      ELSE <<>>] :
        n \in {m \in DOMAIN notes :
                  \/ notes[m].owner = wizard
                  \/ /\ m \in DOMAIN data.shares
                     /\ Contains(data.shares[m], wizard)}}

\* GET /notes: Depends(get_current_wizard).
view_notes(t, key) ==
    LET w == get_current_wizard(wizards, key) IN
    /\ Begin(t, "view_notes", key, w, 401,
             [pc |-> "get_notes_meta", h |-> "view_notes", key |-> key,
              wizard |-> w])
    /\ UNCHANGED <<docs, lock, uuids, ghosts>>

\* notes = await get_notes_meta().
view_notes_meta(t) ==
    /\ At(t, "view_notes", "get_notes_meta")
    /\ Continue(t, [pc |-> "get_share_data", h |-> "view_notes",
                    key |-> task[t].key, wizard |-> task[t].wizard,
                    notes |-> notes_meta])
    /\ UNCHANGED <<docs, lock, calls, uuids, ghosts>>

\* share_data = await get_share_data(), then the loop; the answer carries
\* the listing.
view_notes_list(t) ==
    /\ At(t, "view_notes", "get_share_data")
    /\ task' = [task EXCEPT ![t] = Idle]
    /\ last' = [h |-> "view_notes", key |-> task[t].key, resp |-> 200,
                notes |-> view_notes_result(task[t].notes, share_data,
                                            task[t].wizard)]
    /\ running' = 0
    /\ UNCHANGED <<docs, lock, calls, uuids, ghosts>>

\* DELETE /notes/{note_id}: Depends(get_current_wizard).
delete_note(t, key, note_id) ==
    LET w == get_current_wizard(wizards, key) IN
    /\ Begin(t, "delete_note", key, w, 401,
             [pc |-> "get_notes_meta", h |-> "delete_note", key |-> key,
              wizard |-> w, note_id |-> note_id])
    /\ UNCHANGED <<docs, lock, uuids, ghosts>>

\* The checks of delete_note without the owner test.
delete_refusal_any_principal(notes, note_id, wizard) ==
    IF note_id \notin DOMAIN notes THEN 404 ELSE 0

\* The checks of delete_note: unknown note, then not the owner; 0 lets the
\* call through.
delete_refusal(notes, note_id, wizard) ==
    IF note_id \notin DOMAIN notes THEN 404
    ELSE IF notes[note_id].owner # wizard THEN 403
    ELSE 0

\* await get_notes_meta, the two checks, then delete_note_file.
delete_note_check(t) ==
    /\ At(t, "delete_note", "get_notes_meta")
    /\ LET n == task[t].note_id
           r == delete_refusal(notes_meta, n, task[t].wizard) IN
         IF r # 0
         THEN Answer(t, r) /\ files' = files
         ELSE /\ files' = delete_note_file(files, n)
              /\ Goto(t, "delete_note_meta")
    /\ UNCHANGED <<wizards, notes_meta, share_data, partial, lock, calls,
                   uuids, ghosts>>

\* await data_store.delete_note_meta: a no-op when the id is gone.
delete_note_commit(t) ==
    /\ At(t, "delete_note", "delete_note_meta")
    /\ notes_meta' = IF task[t].note_id \in DOMAIN notes_meta
                     THEN delete_note_meta(notes_meta, task[t].note_id)
                     ELSE notes_meta
    /\ Answer(t, 200)
    /\ UNCHANGED <<wizards, share_data, partial, files, lock, calls, uuids,
                   ghosts>>

\* POST /notes/share: Depends(get_current_wizard).
share_note(t, key, note_id, wizard_name) ==
    LET w == get_current_wizard(wizards, key) IN
    /\ Begin(t, "share_note", key, w, 401,
             [pc |-> "get_notes_meta", h |-> "share_note", key |-> key,
              wizard |-> w, note_id |-> note_id, wizard_name |-> wizard_name])
    /\ UNCHANGED <<docs, lock, uuids, ghosts>>

\* The checks of share_note on the note without the owner test.
share_refusal_any_principal(notes, note_id, wizard) ==
    IF note_id \notin DOMAIN notes THEN 404 ELSE 0

\* The checks of share_note on the note: unknown note, then not the owner;
\* 0 lets the call through.
share_refusal(notes, note_id, wizard) ==
    IF note_id \notin DOMAIN notes THEN 404
    ELSE IF notes[note_id].owner # wizard THEN 403
    ELSE 0

\* await get_notes_meta: unknown note, then not the owner.
share_note_check(t) ==
    /\ At(t, "share_note", "get_notes_meta")
    /\ LET r == share_refusal(notes_meta, task[t].note_id, task[t].wizard) IN
         IF r # 0 THEN Answer(t, r) ELSE Goto(t, "get_wizards")
    /\ UNCHANGED <<docs, lock, calls, uuids, ghosts>>

\* await get_wizards: unknown principal.
share_note_wizard(t) ==
    /\ At(t, "share_note", "get_wizards")
    /\ IF task[t].wizard_name \notin DOMAIN wizards THEN Answer(t, 404)
       ELSE Goto(t, "add_share")
    /\ UNCHANGED <<docs, lock, calls, uuids, ghosts>>

\* await data_store.add_share.
share_note_add(t) ==
    /\ At(t, "share_note", "add_share")
    /\ share_data' = add_share(share_data, task[t].note_id, task[t].wizard_name)
    /\ Answer(t, 200)
    /\ UNCHANGED <<wizards, notes_meta, partial, files, lock, calls, uuids,
                   ghosts>>

\* The first request with the id, as the handler's loop finds it; 0: none.
find_request(data, request_id) ==
    LET hits == {i \in 1..Len(data.requests) :
                    data.requests[i].request_id = request_id}
    IN  IF hits = {} THEN 0 ELSE CHOOSE i \in hits : \A j \in hits : i <= j

\* POST /access-requests: Depends(get_current_wizard).
request_access(t, key, wizard_name) ==
    LET w == get_current_wizard(wizards, key) IN
    /\ Len(share_data.requests) + Cardinality(InFlight("request_access"))
          < MaxRequests
    /\ Begin(t, "request_access", key, w, 401,
             [pc |-> "get_wizards", h |-> "request_access", key |-> key,
              wizard |-> w, wizard_name |-> wizard_name])
    /\ UNCHANGED <<docs, lock, uuids, ghosts>>

\* Checks that let a principal ask itself.
request_refusal_no_self(wz, wizard, wizard_name) ==
    IF wizard_name \notin DOMAIN wz THEN 404 ELSE 0

\* The two checks of request_access: the status it raises, 0 when it goes on.
request_refusal(wz, wizard, wizard_name) ==
    IF wizard_name \notin DOMAIN wz THEN 404
    ELSE IF wizard_name = wizard THEN 400
    ELSE 0

\* await get_wizards and the two checks.
request_access_check(t) ==
    /\ At(t, "request_access", "get_wizards")
    /\ LET r == request_refusal(wizards, task[t].wizard, task[t].wizard_name)
       IN  IF r # 0 THEN Answer(t, r) ELSE Goto(t, "add_request")
    /\ UNCHANGED <<docs, lock, calls, uuids, ghosts>>

\* await data_store.add_request with a fresh request id.
request_access_add(t) ==
    /\ At(t, "request_access", "add_request")
    /\ share_data' = add_request(share_data,
                        [request_id |-> Len(share_data.requests) + 1,
                         from_wizard |-> task[t].wizard,
                         to_wizard |-> task[t].wizard_name,
                         status |-> "pending"])
    /\ Answer(t, 200)
    /\ UNCHANGED <<wizards, notes_meta, partial, files, lock, calls, uuids,
                   ghosts>>

\* POST /access-requests/approve: Depends(get_current_wizard).
allow_request(t, key, request_id) ==
    LET w == get_current_wizard(wizards, key) IN
    /\ Begin(t, "allow_request", key, w, 401,
             [pc |-> "get_share_data", h |-> "allow_request", key |-> key,
              wizard |-> w, request_id |-> request_id, cleared |-> FALSE])
    /\ UNCHANGED <<docs, lock, uuids, ghosts>>

\* Checks that look at the status before they look at the addressee.
approve_refusal_status_first(data, request_id, wizard) ==
    LET i == find_request(data, request_id) IN
    IF i = 0 THEN 404
    ELSE IF data.requests[i].status # "pending" THEN 400
    ELSE IF data.requests[i].to_wizard # wizard THEN 403
    ELSE 0

\* The three checks of allow_request: the status it raises, 0 when it goes on.
approve_refusal(data, request_id, wizard) ==
    LET i == find_request(data, request_id) IN
    IF i = 0 THEN 404
    ELSE IF data.requests[i].to_wizard # wizard THEN 403
    ELSE IF data.requests[i].status # "pending" THEN 400
    ELSE 0

\* await get_share_data, the search and the three checks on the snapshot.
allow_request_check(t) ==
    /\ At(t, "allow_request", "get_share_data")
    /\ LET i == find_request(share_data, task[t].request_id)
           r == approve_refusal(share_data, task[t].request_id, task[t].wizard)
       IN
         IF r # 0 THEN Answer(t, r)
         ELSE Continue(t, [pc |-> "share_all_notes", h |-> "allow_request",
                           key |-> task[t].key, wizard |-> task[t].wizard,
                           request_id |-> task[t].request_id,
                           access_req |-> share_data.requests[i],
                           cleared |-> task[t].cleared])
    /\ UNCHANGED <<docs, lock, calls, uuids, ghosts>>

\* await data_store.share_all_notes(wizard, access_req["from_wizard"]).
allow_request_grant(t) ==
    /\ At(t, "allow_request", "share_all_notes")
    /\ share_data' = share_all_notes(notes_meta, share_data, task[t].wizard,
                                     task[t].access_req.from_wizard)
    /\ hist' = [hist EXCEPT !.grants[task[t].request_id] = @ + 1]
    /\ Goto(t, "update_request_status")
    /\ UNCHANGED <<wizards, notes_meta, partial, files, lock, calls, uuids,
                   added, born>>

\* await data_store.update_request_status(request_id, "approved").
allow_request_flip(t) ==
    /\ At(t, "allow_request", "update_request_status")
    /\ share_data' = update_request_status(share_data, task[t].request_id,
                                           "approved")
    /\ hist' = [hist EXCEPT !.oks[task[t].request_id] = @ + 1]
    /\ Answer(t, 200)
    /\ UNCHANGED <<wizards, notes_meta, partial, files, lock, calls, uuids,
                   added, born>>

\* GET /admin/notes: Depends(get_admin).
admin_view_all_notes(t, key) ==
    /\ Begin(t, "admin_view_all_notes", key, get_admin(wizards, key), 403,
             [pc |-> "get_notes_meta", h |-> "admin_view_all_notes",
              key |-> key])
    /\ UNCHANGED <<docs, lock, uuids, ghosts>>

\* await get_notes_meta: the snapshot the listing is built from.
admin_view_all_notes_meta(t) ==
    /\ At(t, "admin_view_all_notes", "get_notes_meta")
    /\ Continue(t, [pc |-> "get_share_data", h |-> task[t].h,
                     key |-> task[t].key, notes |-> notes_meta])
    /\ UNCHANGED <<docs, lock, calls, uuids, ghosts>>

\* await get_share_data and the listing.
admin_view_all_notes_list(t) ==
    /\ At(t, "admin_view_all_notes", "get_share_data")
    /\ Answer(t, 200)
    /\ UNCHANGED <<docs, lock, calls, uuids, ghosts>>

\* GET /admin/notes/{note_id}/download: Depends(get_admin).
admin_download_note(t, key, note_id) ==
    /\ Begin(t, "admin_download_note", key, get_admin(wizards, key), 403,
             [pc |-> "get_notes_meta", h |-> "admin_download_note",
              key |-> key, note_id |-> note_id])
    /\ UNCHANGED <<docs, lock, uuids, ghosts>>

\* await get_notes_meta, then encryption_service.read_note.
admin_download_note_fetch(t) ==
    /\ At(t, "admin_download_note", "get_notes_meta")
    /\ IF task[t].note_id \notin DOMAIN notes_meta THEN Answer(t, 404)
       ELSE IF task[t].note_id \notin files THEN Answer(t, 404)
       ELSE Answer(t, 200)
    /\ UNCHANGED <<docs, lock, calls, uuids, ghosts>>

\* DELETE /admin/notes/{note_id}: Depends(get_admin).
admin_delete_note(t, key, note_id) ==
    /\ Begin(t, "admin_delete_note", key, get_admin(wizards, key), 403,
             [pc |-> "get_notes_meta", h |-> "admin_delete_note",
              key |-> key, note_id |-> note_id])
    /\ UNCHANGED <<docs, lock, uuids, ghosts>>

\* await get_notes_meta, the check, then delete_note_file.
admin_delete_note_check(t) ==
    /\ At(t, "admin_delete_note", "get_notes_meta")
    /\ LET n == task[t].note_id IN
         IF n \notin DOMAIN notes_meta
         THEN Answer(t, 404) /\ files' = files
         ELSE /\ files' = delete_note_file(files, n)
              /\ Goto(t, "delete_note_meta")
    /\ UNCHANGED <<wizards, notes_meta, share_data, partial, lock, calls,
                   uuids, ghosts>>

\* await data_store.delete_note_meta.
admin_delete_note_commit(t) ==
    /\ At(t, "admin_delete_note", "delete_note_meta")
    /\ notes_meta' = IF task[t].note_id \in DOMAIN notes_meta
                     THEN delete_note_meta(notes_meta, task[t].note_id)
                     ELSE notes_meta
    /\ Answer(t, 200)
    /\ UNCHANGED <<wizards, share_data, partial, files, lock, calls, uuids,
                   ghosts>>

\* DELETE /admin/shares: Depends(get_admin).
admin_remove_all_shares(t, key) ==
    /\ Begin(t, "admin_remove_all_shares", key, get_admin(wizards, key), 403,
             [pc |-> "clear_all_shares", h |-> "admin_remove_all_shares",
              key |-> key])
    /\ UNCHANGED <<docs, lock, uuids, ghosts>>

\* await data_store.clear_all_shares. Every approve call in progress notes
\* that the shares were cleared under it.
admin_remove_all_shares_clear(t) ==
    /\ At(t, "admin_remove_all_shares", "clear_all_shares")
    /\ share_data' = clear_all_shares(share_data)
    /\ task' = [u \in Tasks |->
                  IF u = t THEN Idle
                  ELSE IF u \in InFlight("allow_request")
                  THEN [task[u] EXCEPT !.cleared = TRUE]
                  ELSE task[u]]
    /\ last' = Reply(task[t].h, task[t].key, 200)
    /\ running' = 0
    /\ UNCHANGED <<wizards, notes_meta, partial, files, lock, calls, uuids,
                   ghosts>>

\* POST /admin/wizards: Depends(get_admin).
admin_create_wizard(t, key, name, api_key) ==
    /\ Begin(t, "admin_create_wizard", key, get_admin(wizards, key), 403,
             [pc |-> "add_wizard", h |-> "admin_create_wizard", key |-> key,
              name |-> name, api_key |-> api_key])
    /\ UNCHANGED <<docs, lock, uuids, ghosts>>

\* await data_store.add_wizard; its ValueError becomes a 400.
admin_create_wizard_add(t) ==
    /\ At(t, "admin_create_wizard", "add_wizard")
    /\ LET c == [op |-> "add_wizard", name |-> task[t].name,
                 api_key |-> task[t].api_key]
       IN  IF WritesNothing(c)
           THEN /\ Answer(t, IF AnswerOf(c) = "ValueError" THEN 400 ELSE 500)
                /\ wizards' = wizards
           ELSE /\ wizards' = Modified(c)
                /\ Answer(t, 200)
    /\ UNCHANGED <<notes_meta, share_data, partial, files, lock, calls, uuids,
                   ghosts>>

\* The awaits that rewrite a document.
WritePcs == {"add_wizard", "add_note_meta", "delete_note_meta", "add_share",
             "add_request", "share_all_notes", "update_request_status",
             "clear_all_shares"}

\* _write_json raises OSError at open(filepath, "w") (permission denied, too
\* many open files): the document is untouched, the exception leaves the
\* DataStore operation and the handler, and the call answers 500.
storage_error(t) ==
    /\ task[t].pc \in WritePcs
    /\ running \in {0, t}
    /\ Answer(t, 500)
    /\ UNCHANGED <<docs, lock, calls, uuids, ghosts>>

\* ------------------------------------------------------------------ specs
\* The credentials presented and the principals named in requests.
HarryKey == DEFAULT_WIZARDS["Harry"]

RonKey == DEFAULT_WIZARDS["Ron"]

AdminKey == DEFAULT_WIZARDS[Admin]

Keys == {HarryKey, RonKey, AdminKey, "wrong_key"}

UserKeys == {HarryKey, RonKey}

Targets == {"Harry", "Ron", "Nobody"}

\* Notes: created, shared, read and deleted.
Next ==
    \E t \in Tasks :
        \/ \E key \in UserKeys : create_note(t, key)
        \/ create_note_meta(t)
        \/ create_note_write(t)
        \/ \E key \in UserKeys, n \in NoteIds, w \in Targets :
              share_note(t, key, n, w)
        \/ share_note_check(t)
        \/ share_note_wizard(t)
        \/ share_note_add(t)
        \/ \E key \in UserKeys \cup {"wrong_key"}, n \in NoteIds :
              read_note(t, key, n)
        \/ read_note_access(t)
        \/ read_note_shares(t)
        \/ read_note_fetch(t)
        \/ \E key \in UserKeys, n \in NoteIds : delete_note(t, key, n)
        \/ delete_note_check(t)
        \/ delete_note_commit(t)
        \/ \E key \in {AdminKey, RonKey}, n \in NoteIds :
              admin_delete_note(t, key, n)
        \/ admin_delete_note_check(t)
        \/ admin_delete_note_commit(t)

Spec == Init /\ [][Next]_vars

\* The administrator's operations, called with every credential.
AdminNext ==
    \E t \in Tasks :
        \/ \E key \in UserKeys : create_note(t, key)
        \/ create_note_meta(t)
        \/ create_note_write(t)
        \/ \E key \in Keys : admin_view_all_notes(t, key)
        \/ admin_view_all_notes_meta(t)
        \/ admin_view_all_notes_list(t)
        \/ \E key \in Keys, n \in NoteIds : admin_download_note(t, key, n)
        \/ admin_download_note_fetch(t)
        \/ \E key \in Keys, n \in NoteIds : admin_delete_note(t, key, n)
        \/ admin_delete_note_check(t)
        \/ admin_delete_note_commit(t)
        \/ \E key \in Keys : admin_remove_all_shares(t, key)
        \/ admin_remove_all_shares_clear(t)
        \/ \E key \in Keys, n \in NewNames, k \in NewKeys :
              admin_create_wizard(t, key, n, k)
        \/ admin_create_wizard_add(t)

SpecAdmin == Init /\ [][AdminNext]_vars

\* Access requests: made, approved, and the shares they grant, on a storage
\* whose writes may fail.
ShareNext ==
    \E t \in Tasks :
        \/ \E key \in UserKeys : create_note(t, key)
        \/ create_note_meta(t)
        \/ create_note_write(t)
        \/ \E key \in UserKeys, w \in Targets : request_access(t, key, w)
        \/ request_access_check(t)
        \/ request_access_add(t)
        \/ \E key \in UserKeys, r \in RequestIds : allow_request(t, key, r)
        \/ allow_request_check(t)
        \/ allow_request_grant(t)
        \/ allow_request_flip(t)
        \/ \E key \in UserKeys, n \in NoteIds, w \in Targets :
              share_note(t, key, n, w)
        \/ share_note_check(t)
        \/ share_note_wizard(t)
        \/ share_note_add(t)
        \/ \E key \in {AdminKey, RonKey} : admin_remove_all_shares(t, key)
        \/ admin_remove_all_shares_clear(t)
        \/ storage_error(t)

SpecShare == Init /\ [][ShareNext]_vars

\* ================================================================= claims

HermioneKey == DEFAULT_WIZARDS["Hermione"]

ViewKeys == {HarryKey, HermioneKey}

ViewTargets == {"Hermione", "Ron"}

\* Notes: created, shared, listed, read, downloaded and deleted.
ViewNext ==
    \E t \in Tasks :
        \/ \E key \in ViewKeys : create_note(t, key)
        \/ create_note_meta(t)
        \/ create_note_write(t)
        \/ \E n \in NoteIds, w \in ViewTargets : share_note(t, HarryKey, n, w)
        \/ share_note_check(t)
        \/ share_note_wizard(t)
        \/ share_note_add(t)
        \/ \E key \in ViewKeys : view_notes(t, key)
        \/ view_notes_meta(t)
        \/ view_notes_list(t)
        \/ \E n \in NoteIds : read_note(t, HermioneKey, n)
        \/ read_note_access(t)
        \/ read_note_shares(t)
        \/ read_note_fetch(t)
        \/ \E n \in NoteIds : download_note(t, HermioneKey, n)
        \/ download_note_access(t)
        \/ download_note_shares(t)
        \/ download_note_fetch(t)
        \/ \E n \in NoteIds : delete_note(t, HarryKey, n)
        \/ delete_note_check(t)
        \/ delete_note_commit(t)

SpecView == Init /\ [][ViewNext]_vars

\* The api_key of a CreateWizardRequest: any string, a new one or one that
\* is already some principal's.
CredKeys == {"neville_key", HarryKey, AdminKey}

\* Principals created by the administrator, and the new and old credentials
\* at work.
CredNext ==
    \E t \in Tasks :
        \/ \E key \in {AdminKey, HarryKey}, n \in NewNames, k \in CredKeys :
              admin_create_wizard(t, key, n, k)
        \/ admin_create_wizard_add(t)
        \/ \E key \in {HarryKey, "neville_key"} : create_note(t, key)
        \/ create_note_meta(t)
        \/ create_note_write(t)
        \/ \E key \in {AdminKey, HarryKey}, n \in NoteIds :
              admin_delete_note(t, key, n)
        \/ admin_delete_note_check(t)
        \/ admin_delete_note_commit(t)

SpecCred == Init /\ [][CredNext]_vars

Principals == {"Harry", "Hermione", "Ron", "Dumbledore", "Nobody"}

\* C1: on the documents of every reachable state, check_note_access(N, P) is
\* true exactly when N has a metadata entry and P owns N or is in shares[N];
\* it is false when N has no metadata entry, stale shares entry or not.
C1_AccessIffOwnerOrShared ==
    \A n \in NoteIds, w \in Principals :
        check_note_access(notes_meta, share_data, n, w)
            <=> /\ n \in DOMAIN notes_meta
                /\ \/ notes_meta[n].owner = w
                   \/ /\ n \in DOMAIN share_data.shares
                      /\ \E i \in 1..Len(share_data.shares[n]) :
                            share_data.shares[n][i] = w

\* A deleted note whose shares entry still lists Ron, and a read_note call by
\* Ron that check_note_access has just refused.
C1_Witness ==
    \E n \in NoteIds :
        /\ n \notin DOMAIN notes_meta
        /\ HasShare(share_data, n, "Ron")
        /\ ~check_note_access(notes_meta, share_data, n, "Ron")
        /\ last = Reply("read_note", RonKey, 403)

\* C4: for every request at most one approve call succeeds and the bulk grant
\* share_all_notes runs exactly once for it.
C4_ApprovedAndGrantedOnce ==
    \A r \in RequestIds :
        /\ hist.oks[r] <= 1
        /\ hist.grants[r] <= 1
        /\ hist.oks[r] = 1 => hist.grants[r] = 1

\* C5: the bulk grant and the status flip are one step: in no state that
\* another operation can run on has the grant of a request been written
\* while the request is still pending, or the request been approved without
\* its grant having been written.
C5_GrantAndFlipTogether ==
    running = 0 =>
        \A r \in 1..Len(share_data.requests) :
            (hist.grants[r] > 0) <=> (share_data.requests[r].status = "approved")

\* C6: in the step that makes a request approved, every note the approver
\* owns is shared with the requester, provided no clear_all_shares ran since
\* the approve call began.
C6_OwnedAtApprovalIsShared ==
    [][\A t \in Tasks :
          LET r == find_request(share_data, task[t].request_id) IN
          (/\ At(t, "allow_request", "update_request_status")
           /\ IsIdle(t)'
           /\ ~task[t].cleared
           /\ share_data.requests[r].status = "pending"
           /\ share_data'.requests[r].status = "approved")
          => \A n \in DOMAIN notes_meta' :
                notes_meta'[n].owner = task[t].wizard
                => HasShare(share_data', n, task[t].access_req.from_wizard)]_vars

\* An approve call by Harry on Ron's request has answered 200 while a
\* create_note of Harry was suspended with its metadata written: that note
\* is shared with Ron too.
C6_Witness ==
    /\ last = Reply("allow_request", HarryKey, 200)
    /\ \E t \in Tasks :
          /\ task[t].pc = "write_note"
          /\ task[t].wizard = "Harry"
          /\ task[t].note_id \in DOMAIN notes_meta
          /\ HasShare(share_data, task[t].note_id, "Ron")

\* C7: the bulk grant made for a request never adds the requester to the
\* shares of a note whose metadata entry was added after that request had
\* become approved.
C7_NoGrantForLaterNotes ==
    [][\A t \in Tasks :
          (/\ At(t, "allow_request", "share_all_notes")
           /\ task'[t].pc = "update_request_status")
          => \A n \in DOMAIN born :
                task[t].request_id \in born[n]
                => (HasShare(share_data', n, task[t].access_req.from_wizard)
                    => HasShare(share_data, n, task[t].access_req.from_wizard))]_vars

\* Harry has created a note after Ron's request was approved, the note is
\* not shared with Ron, and a further approve call on the request has just
\* been refused with 400.
C7_Witness ==
    /\ last = Reply("allow_request", HarryKey, 400)
    /\ \E n \in DOMAIN notes_meta :
          /\ n \in DOMAIN born
          /\ born[n] # {}
          /\ notes_meta[n].owner = "Harry"
          /\ ~HasShare(share_data, n, "Ron")

AdminHandlers == {"admin_view_all_notes", "admin_download_note",
                  "admin_delete_note", "admin_remove_all_shares",
                  "admin_create_wizard"}

\* C10: a call of an admin-only operation with a key that is not the
\* administrator's answers 403 in the step that starts it, and leaves the
\* principals, the note metadata, the share data and the blobs unchanged.
C10_NonAdminGets403 ==
    [][(/\ calls' = calls + 1
        /\ \/ /\ task' = task
              /\ last'.h \in AdminHandlers
              /\ last'.key # wizards[Admin]
           \/ \E t \in Tasks :
                 /\ IsIdle(t)
                 /\ task'[t].pc # "idle"
                 /\ task'[t].h \in AdminHandlers
                 /\ task'[t].key # wizards[Admin])
       => /\ task' = task
          /\ last'.resp = 403
          /\ UNCHANGED <<wizards, notes_meta, share_data, files>>]_vars

\* Ron has called the admin delete with his own key on a note id that does
\* not exist, and the answer was 403.
C10_Witness ==
    /\ notes_meta = EmptyDict
    /\ last = Reply("admin_delete_note", RonKey, 403)

\* C2: every add_share call that has completed (since the last
\* clear_all_shares) still has its (note, principal) pair in the persisted
\* shares mapping, whatever other mutations of the share/request document
\* ran concurrently with it.
C2_AddSharesAllPersist ==
    "share_data" \notin partial =>
        \A p \in added : HasShare(share_data, p[1], p[2])

\* Two add_share calls for distinct pairs have completed and both are on
\* disk, while a third mutation of the same document is waiting for the lock.
C2_Witness ==
    /\ Cardinality(added) >= 2
    /\ \A p \in added : HasShare(share_data, p[1], p[2])
    /\ \E t \in Tasks :
          /\ task[t].pc = "acquire"
          /\ task[t].call.op \in {"add_request", "update_request_status",
                                  "share_all_notes", "add_share"}

InCritical == {t \in Tasks : task[t].pc \in {"read", "write", "dump"}}

\* C3: at most one DataStore operation is inside its critical section (between
\* acquiring the lock and its write), it is the lock's holder, and the
\* document it is about to write is the document on disk plus its own change.
C3_OneOperationAtATime ==
    /\ Cardinality(InCritical) <= 1
    /\ \A t \in InCritical : lock = t
    /\ \A t \in Tasks :
          task[t].pc = "write" => task[t].buf = Modified(task[t].call)

\* One operation is between its read and its write while another one, on a
\* different document, waits for the lock.
C3_Witness ==
    \E t, u \in Tasks :
        /\ task[t].pc = "dump"
        /\ task[u].pc = "acquire"
        /\ FileOf(task[t].call) # FileOf(task[u].call)

\* C8: whenever no create or delete call is in progress, a note id has a
\* metadata entry if and only if its blob file exists.
C8_MetadataIffBlob ==
    (InFlight("create_note") \cup InFlight("delete_note")
        \cup InFlight("admin_delete_note") = {})
    => DOMAIN notes_meta = files

\* C9: a document file is never left empty or partly written: whenever no
\* operation is writing (the lock is free) every document file holds a whole
\* document, also after a write has failed.
C9_NoPartialDocument ==
    lock = 0 => partial = {}

\* C11: a request_access call that names the caller itself answers 400 and
\* leaves the requests as they are, and no stored request has the same
\* principal as sender and addressee.
C11_NoSelfRequest ==
    [][/\ \A i \in 1..Len(share_data'.requests) :
             share_data'.requests[i].from_wizard
                # share_data'.requests[i].to_wizard
       /\ \A t \in Tasks :
             (/\ task[t].pc = "get_wizards"
              /\ task[t].h = "request_access"
              /\ task[t].wizard_name = task[t].wizard)
             => /\ IsIdle(t)'
                /\ last' = Reply("request_access", task[t].key, 400)
                /\ share_data' = share_data]_vars

\* Harry has asked Harry for access and got 400, with a request of somebody
\* else stored.
C11_Witness ==
    /\ last = Reply("request_access", HarryKey, 400)
    /\ Len(share_data.requests) >= 1

\* C12: an approve call answers 404 when no request has the id, 403 when the
\* request is not addressed to the caller (whatever its status) and 400 when
\* it is addressed to the caller and not pending; in these cases the share
\* data stay as they are.
C12_ApproveRefusals ==
    [][\A t \in Tasks :
          LET i == find_request(share_data, task[t].request_id)
              refusal ==
                  IF i = 0 THEN 404
                  ELSE IF share_data.requests[i].to_wizard # task[t].wizard
                  THEN 403
                  ELSE 400
          IN  (/\ task[t].pc = "get_share_data"
               /\ task[t].h = "allow_request"
               /\ \/ i = 0
                  \/ share_data.requests[i].to_wizard # task[t].wizard
                  \/ share_data.requests[i].status # "pending")
              => /\ IsIdle(t)'
                 /\ last' = Reply("allow_request", task[t].key, refusal)
                 /\ share_data' = share_data]_vars

\* Ron's request to Harry is approved and Ron, who is not its addressee, has
\* called approve on it: the answer was 403, not 400.
C12_Witness ==
    /\ last = Reply("allow_request", RonKey, 403)
    /\ Len(share_data.requests) >= 1
    /\ share_data.requests[1].status = "approved"
    /\ share_data.requests[1].to_wizard = "Harry"

\* C13: delete_note_meta on an id without metadata entry,
\* update_request_status on an id no request has and delete_note_file on an
\* id without blob return without error and leave the three documents and
\* the blobs as they were.
C13_AbsentTargetNoOp ==
    [][\A t \in Tasks :
          LET c == task[t].call IN
          (/\ task'[t] # task[t]
           /\ \/ /\ task[t].pc = "read"
                 /\ c.op = "delete_note_meta"
                 /\ c.note_id \notin DOMAIN notes_meta
              \/ /\ task[t].pc = "dump"
                 /\ c.op = "update_request_status"
                 /\ find_request(share_data, c.request_id) = 0
              \/ /\ task[t].pc = "unlink"
                 /\ c.note_id \notin files)
          => /\ IsIdle(t)'
             /\ last' = Returned(c, "")
             /\ partial' \subseteq partial
             /\ task[t].pc = "dump" => partial' = {}
             /\ UNCHANGED <<wizards, notes_meta, share_data, files>>]_vars

\* Two calls were made and both have returned, the second an
\* update_request_status, and no request is stored: its id was unknown.
C13_Witness ==
    /\ calls = 2
    /\ \A t \in Tasks : IsIdle(t)
    /\ last = Returned([op |-> "update_request_status"], "")
    /\ share_data.requests = <<>>

\* C14: creating a principal under a name that is taken answers 400 and
\* changes nothing; no step removes a principal or changes the key of one,
\* and the administrator is always among them.
C14_PrincipalsOnlyGrow ==
    [][/\ DOMAIN wizards \subseteq DOMAIN wizards'
       /\ \A n \in DOMAIN wizards : wizards'[n] = wizards[n]
       /\ Admin \in DOMAIN wizards'
       /\ \A t \in Tasks :
             (/\ task[t].pc = "add_wizard"
              /\ task[t].h = "admin_create_wizard"
              /\ task[t].name \in DOMAIN wizards)
             => /\ IsIdle(t)'
                /\ last' = Reply("admin_create_wizard", task[t].key, 400)
                /\ wizards' = wizards]_vars

\* Neville was added, and the administrator's call to create a principal
\* under a name that is taken has answered 400: Harry has his key.
C14_Witness ==
    /\ last = Reply("admin_create_wizard", AdminKey, 400)
    /\ "Neville" \in DOMAIN wizards
    /\ wizards["Harry"] = HarryKey

\* C15: in the service a note's metadata entry or blob disappears only in a
\* step of delete_note run by the note's owner or of admin_delete_note run
\* with the administrator's key; delete_note by another principal on an
\* existing note answers 403 and removes neither; a delete that answers 200
\* leaves neither the metadata entry nor the blob of its note.
C15_DeleteOnlyByOwnerOrAdmin ==
    [][/\ \A n \in NoteIds :
            \/ (n \in DOMAIN notes_meta /\ n \notin DOMAIN notes_meta')
            \/ (n \in files /\ n \notin files')
            => \E t \in Tasks :
                 /\ ~IsIdle(t)
                 /\ task'[t] # task[t]
                 /\ task[t].note_id = n
                 /\ \/ /\ task[t].h = "delete_note"
                       /\ n \in DOMAIN notes_meta
                       /\ notes_meta[n].owner = get_current_wizard(wizards, task[t].key)
                    \/ /\ task[t].h = "admin_delete_note"
                       /\ task[t].key = wizards[Admin]
       /\ \A t \in Tasks :
            /\ ~IsIdle(t)
            /\ task'[t] # task[t]
            /\ task[t].h = "delete_note"
            /\ task[t].pc = "get_notes_meta"
            /\ task[t].note_id \in DOMAIN notes_meta
            /\ notes_meta[task[t].note_id].owner # get_current_wizard(wizards, task[t].key)
            => /\ IsIdle(t)'
               /\ last' = Reply("delete_note", task[t].key, 403)
               /\ notes_meta' = notes_meta
               /\ files' = files
       /\ \A t \in Tasks :
            /\ ~IsIdle(t)
            /\ task[t].h \in {"delete_note", "admin_delete_note"}
            /\ IsIdle(t)'
            /\ last'.h = task[t].h
            /\ last'.resp = 200
            => /\ task[t].note_id \notin DOMAIN notes_meta'
               /\ task[t].note_id \notin files'
      ]_vars

\* Ron was refused the deletion of Harry's note, which is still whole.
C15_Witness ==
    /\ last = Reply("delete_note", RonKey, 403)
    /\ \E n \in DOMAIN notes_meta : notes_meta[n].owner = "Harry" /\ n \in files

\* C16: share_note changes the shares only when its caller owns the note and
\* the named principal exists, and then the principal is in the note's share
\* list; on an unknown note it answers 404, to a caller who is not the owner
\* 403, on an unknown principal 404, and each refusal leaves the share
\* document as it was.
C16_ShareOnlyByOwner ==
    [][/\ share_data'.shares # share_data.shares
          => \E t \in Tasks :
               /\ ~IsIdle(t)
               /\ task[t].h = "share_note"
               /\ IsIdle(t)'
               /\ last' = Reply("share_note", task[t].key, 200)
               /\ task[t].note_id \in DOMAIN notes_meta
               /\ notes_meta[task[t].note_id].owner
                    = get_current_wizard(wizards, task[t].key)
               /\ task[t].wizard_name \in DOMAIN wizards
               /\ HasShare(share_data', task[t].note_id, task[t].wizard_name)
       /\ \A t \in Tasks :
            ~IsIdle(t) /\ task'[t] # task[t] /\ task[t].h = "share_note"
            => LET n == task[t].note_id
                   refusal ==
                       IF task[t].pc = "get_notes_meta"
                       THEN IF n \notin DOMAIN notes_meta THEN 404
                            ELSE IF notes_meta[n].owner
                                     # get_current_wizard(wizards, task[t].key)
                            THEN 403 ELSE 0
                       ELSE IF task[t].pc = "get_wizards"
                       THEN IF task[t].wizard_name \notin DOMAIN wizards
                            THEN 404 ELSE 0
                       ELSE 0
               IN  /\ refusal # 0
                      => /\ IsIdle(t)'
                         /\ last' = Reply("share_note", task[t].key, refusal)
                         /\ share_data' = share_data
                   /\ refusal = 0 /\ task[t].pc # "add_share" => ~IsIdle(t)'
      ]_vars

\* Ron, with whom Harry shared a note, was refused when he shared it on.
C16_Witness ==
    /\ last = Reply("share_note", RonKey, 403)
    /\ \E n \in DOMAIN notes_meta :
         notes_meta[n].owner = "Harry" /\ HasShare(share_data, n, "Ron")

\* C17: the listing view_notes answers with is exactly the notes of the
\* documents that the caller owns or is in the share list of, each with the
\* note's current share list; so a note of Harry's is in Hermione's listing
\* exactly when Harry has shared it with her, and until then her read_note
\* of it is answered 403.
C17_ListingIsOwnedAndShared ==
    [][\A t \in Tasks :
         /\ ~IsIdle(t) /\ IsIdle(t)' /\ task[t].h = "view_notes"
            => LET w == get_current_wizard(wizards, task[t].key)
                   mine == {n \in DOMAIN notes_meta' :
                              \/ notes_meta'[n].owner = w
                              \/ HasShare(share_data', n, w)}
               IN  /\ last'.h = "view_notes"
                   /\ {e.note_id : e \in last'.notes} = mine
                   /\ \A e \in last'.notes :
                        /\ e.owner = notes_meta'[e.note_id].owner
                        /\ e.shared_with =
                             IF e.note_id \in DOMAIN share_data'.shares
                             THEN share_data'.shares[e.note_id] ELSE <<>>
                   /\ w = "Hermione"
                      => \A n \in DOMAIN notes_meta' :
                           notes_meta'[n].owner = "Harry"
                           => (n \in {e.note_id : e \in last'.notes}
                                <=> HasShare(share_data', n, "Hermione"))
         /\ /\ ~IsIdle(t) /\ IsIdle(t)' /\ task[t].h = "read_note"
            /\ task[t].key = HermioneKey
            /\ task[t].note_id \in DOMAIN notes_meta
            /\ notes_meta[task[t].note_id].owner = "Harry"
            /\ ~HasShare(share_data, task[t].note_id, "Hermione")
            => last' = Reply("read_note", HermioneKey, 403)
      ]_vars

\* Hermione's listing holds a note of Harry's shared with her alone.
C17_Witness ==
    /\ last.h = "view_notes"
    /\ last.key = HermioneKey
    /\ \E e \in last.notes :
         e.owner = "Harry" /\ e.shared_with = <<"Hermione">>

\* C18: every access request of the share document has status "pending" or
\* "approved"; a request enters the document as "pending"; a request that is
\* "approved" is still in the document, under the same id and "approved",
\* after every step, clear_all_shares and further approve calls included.
C18_RequestStatusLifecycle ==
    [][LET old == share_data.requests
           new == share_data'.requests
       IN  /\ \A i \in 1..Len(new) : new[i].status \in {"pending", "approved"}
           /\ \A i \in 1..Len(new) : i > Len(old) => new[i].status = "pending"
           /\ \A i \in 1..Len(old) :
                old[i].status = "approved"
                => /\ i <= Len(new)
                   /\ new[i].request_id = old[i].request_id
                   /\ new[i].status = "approved"
      ]_vars

\* The administrator cleared the shares and the approved request is still
\* approved.
C18_Witness ==
    /\ last = Reply("admin_remove_all_shares", AdminKey, 200)
    /\ \E i \in 1..Len(share_data.requests) :
         share_data.requests[i].status = "approved"

\* C19: a read_note or download_note of a note id without a metadata entry
\* is answered 404, and one of a note that exists and that the caller may
\* not read is answered 403.
C19_MissingIs404ForbiddenIs403 ==
    [][\A t \in Tasks :
         /\ ~IsIdle(t) /\ IsIdle(t)'
         /\ task[t].h \in {"read_note", "download_note"}
         => LET n == task[t].note_id
                w == get_current_wizard(wizards, task[t].key)
            IN  /\ last'.h = task[t].h
                /\ n \notin DOMAIN notes_meta => last'.resp = 404
                /\ /\ n \in DOMAIN notes_meta
                   /\ notes_meta[n].owner # w
                   /\ ~HasShare(share_data, n, w)
                   => last'.resp = 403
      ]_vars

\* C20: in every state no note with a metadata entry has its owner in its
\* share list.
C20_OwnerNotInOwnShares ==
    \A n \in DOMAIN notes_meta : ~HasShare(share_data, n, notes_meta[n].owner)

\* C21: the lock is held exactly by a task inside the `async with` block of
\* an operation, so it is free whenever no operation is executing, also
\* after add_wizard raised ValueError and after a read or a write raised;
\* every operation that waits for the lock gets it, and every operation
\* that started completes.
C21_LockReleasedAndOpsComplete ==
    /\ [](/\ \A t \in Tasks :
              lock = t <=> task[t].pc \in {"read", "write", "dump"}
          /\ (\A t \in Tasks : IsIdle(t)) => lock = 0)
    /\ \A t \in Tasks : (task[t].pc = "acquire") ~> (lock = t)
    /\ \A t \in Tasks : (~IsIdle(t)) ~> IsIdle(t)

\* add_wizard raised ValueError, the lock is free and another operation is
\* waiting for it.
C21_Witness ==
    /\ last = [h |-> "add_wizard", raised |-> "ValueError"]
    /\ lock = 0
    /\ \E u \in Tasks : task[u].pc = "acquire"

\* C22: in every state, whatever admin_create_wizard calls were made, the
\* credential stored for a principal P resolves through get_current_wizard
\* to P, and it passes get_admin only when P is the administrator.
C22_CredentialResolvesToItsPrincipal ==
    \A p \in DOMAIN wizards :
        /\ get_current_wizard(wizards, wizards[p]) = p
        /\ get_admin(wizards, wizards[p]) # NoWizard => p = Admin

====
